---- MODULE Spec2Model ----
(***************************************************************************)
(* Model of be/src/exec/pipeline/fragment_executor.cpp: the prepare /      *)
(* execute protocol of FragmentExecutor for the fragment instances of one  *)
(* query on one backend.  Every executor is a one-shot object driven by    *)
(* its own RPC thread; pc[e] is the position of that thread inside         *)
(* prepare() / execute().  A step of the model is one access to state      *)
(* shared between threads (query context, fragment registry, driver        *)
(* limiter) together with the thread-local code that precedes it.          *)
(***************************************************************************)
EXTENDS Integers, Sequences, FiniteSets, TLC

\* ------------------------------------------------------------------ bounds
\* executors (RPC threads) that prepare and execute concurrently
NumExecutors == 2
\* DriverLimiter::_max_num_drivers, the process-wide budget of lanes
MaxNumDrivers == 3
\* the clock stops here
MaxTime == 2

\* QueryContext::DEFAULT_EXPIRE_SECONDS
DEFAULT_EXPIRE_SECONDS == 300

Executors == 1..NumExecutors
\* the fragment instance ids a request may carry: two executors may carry
\* the same identity or different ones
FragIds == {1, 2}

VARIABLES
    pc,                 \* position of each executor's thread
    request,            \* what the executor has read of its request so far
    prepare_status,     \* Status returned by prepare()
    execute_status,     \* Status returned by execute()
    fail_step,          \* the step whose error the call returned
    query_ctx_ptr,      \* FragmentExecutor::_query_ctx != nullptr
    fragment_ctx_ptr,   \* FragmentExecutor::_fragment_ctx != nullptr
    fctx,               \* the FragmentContext built by each executor
    released,           \* how often the driver token of fctx[e] was released
    prepared_drivers,   \* drivers execute() has prepared, in order
    submitted_drivers,  \* drivers execute() has submitted, in order
    events,             \* adaptive events of the fragment built by e
    deferred_drivers,   \* drivers submitted by group-initialize events
    query_ctx,          \* the QueryContext of the query
    registry,           \* query_ctx->fragment_mgr(): fragment id -> owner
    num_total_drivers,  \* DriverLimiter::_num_total_drivers
    now                 \* MonotonicNanos(), in seconds

execVars == <<pc, request, prepare_status, execute_status, fail_step,
              query_ctx_ptr, fragment_ctx_ptr>>
fragVars == <<fctx, released, prepared_drivers, submitted_drivers, events,
              deferred_drivers>>
sharedVars == <<query_ctx, registry, num_total_drivers>>
vars == <<execVars, fragVars, sharedVars, now>>

\* ------------------------------------------------------------- plan shapes
\* A plan as the pipeline builder leaves it: per pipeline its dop, whether
\* its source is initially active in its adaptive group, the pipeline of
\* its group leader; per leader whether it has an adaptive blocking event
\* and its group_dependent_pipelines; per pipeline the plan-node id of its
\* source when the source takes morsels (a scan), 0 when it does not.
OnePipeline(d) ==
    [dop |-> <<d>>, active |-> <<TRUE>>, leader |-> <<1>>,
     blocking |-> <<FALSE>>, deps |-> <<{}>>, source |-> <<1>>]

\* pipeline 1 feeds the statistics; pipeline 2 is led by its own source,
\* which waits for its blocking event and for pipeline 1.
LeaderAndFollower(a, d) ==
    [dop |-> <<a, d>>, active |-> <<TRUE, FALSE>>, leader |-> <<1, 2>>,
     blocking |-> <<FALSE, TRUE>>, deps |-> <<{}, {1}>>, source |-> <<1, 0>>]

\* pipelines 2 and 3 form the group led by the source of pipeline 2.
DeferredGroup ==
    [dop |-> <<1, 1, 1>>, active |-> <<TRUE, FALSE, FALSE>>,
     leader |-> <<1, 2, 2>>, blocking |-> <<FALSE, TRUE, FALSE>>,
     deps |-> <<{}, {1}, {}>>, source |-> <<1, 0, 0>>]

\* two deferred groups; the leader of the second has no blocking event and
\* depends on pipeline 1 and on the pipeline of the first group.
TwoGroups ==
    [dop |-> <<1, 1, 1>>, active |-> <<TRUE, FALSE, FALSE>>,
     leader |-> <<1, 2, 3>>, blocking |-> <<FALSE, TRUE, FALSE>>,
     deps |-> <<{}, {1}, {1, 2}>>, source |-> <<1, 0, 0>>]

\* pipeline 2 is deferred and led by its own source, which has neither an
\* adaptive blocking event nor group_dependent_pipelines.
IndependentGroup ==
    [dop |-> <<1, 1>>, active |-> <<TRUE, FALSE>>, leader |-> <<1, 2>>,
     blocking |-> <<FALSE, FALSE>>, deps |-> <<{}, {}>>, source |-> <<1, 0>>]

\* one pipeline whose source takes no morsels (an exchange)
ExchangePipeline == [OnePipeline(1) EXCEPT !.source = <<0>>]

\* both pipelines start at a scan; the second scan is activated by the
\* group-initialize event of its own source.
TwoScans == [LeaderAndFollower(1, 1) EXCEPT !.source = <<1, 2>>]

NoPlan == [dop |-> <<>>, active |-> <<>>, leader |-> <<>>, blocking |-> <<>>,
           deps |-> <<>>, source |-> <<>>]

Pipelines(plan) == 1..Len(plan.dop)

RECURSIVE SumSeq(_)
SumSeq(s) == IF s = <<>> THEN 0 ELSE Head(s) + SumSeq(Tail(s))

\* FragmentContext::total_dop(): the lanes of all pipelines, deferred or not
total_dop(plan) == SumSeq(plan.dop)

\* ----------------------------------------------------------- query context
FreshQueryContext ==
    [exists |-> FALSE, num_fragments |-> 0,
     delivery_expire_seconds |-> DEFAULT_EXPIRE_SECONDS,
     query_expire_seconds |-> DEFAULT_EXPIRE_SECONDS,
     delivery_deadline |-> 0, query_deadline |-> 0, prepared |-> FALSE,
     scan_limit |-> 0, desc_tbl |-> FALSE]

\* QueryContextManager::get_or_register: idempotent get-or-create, one more
\* live fragment
get_or_register(qc) ==
    IF qc.exists THEN [qc EXCEPT !.num_fragments = @ + 1]
    ELSE [FreshQueryContext EXCEPT !.exists = TRUE, !.num_fragments = 1]

\* QueryContext::count_down_fragments: the context goes with its last
\* fragment
count_down_fragments(qc) ==
    IF qc.num_fragments = 1 THEN FreshQueryContext
    ELSE [qc EXCEPT !.num_fragments = @ - 1]

Max(a, b) == IF a >= b THEN a ELSE b
Min(a, b) == IF a <= b THEN a ELSE b

\* query options: query_timeout and query_delivery_timeout with their
\* __isset flags
Options(values) ==
    [qt_set : BOOLEAN, qt : values, dt_set : BOOLEAN, dt : values]

\* the options a request can carry: an option that is not set has no value
RequestOptions(values) ==
    {o \in Options(values \cup {0}) :
        (~o.qt_set => o.qt = 0) /\ (~o.dt_set => o.dt = 0)}

NoOptions == [qt_set |-> FALSE, qt |-> 0, dt_set |-> FALSE, dt |-> 0]

\* a delivery timeout that is not capped by the query timeout
calc_delivery_expired_seconds_uncapped(o) ==
    Max(1, IF o.dt_set THEN o.dt
           ELSE IF o.qt_set THEN o.qt ELSE DEFAULT_EXPIRE_SECONDS)

\* _calc_delivery_expired_seconds, lines 304-319
calc_delivery_expired_seconds(o) ==
    LET expired_seconds ==
            IF o.dt_set
            THEN (IF o.qt_set THEN Min(o.qt, o.dt) ELSE o.dt)
            ELSE IF o.qt_set THEN o.qt ELSE DEFAULT_EXPIRE_SECONDS
    IN Max(1, expired_seconds)

\* _calc_query_expired_seconds, lines 321-329
calc_query_expired_seconds(o) ==
    IF o.qt_set THEN Max(1, o.qt) ELSE DEFAULT_EXPIRE_SECONDS

\* QueryContext::extend_delivery_lifetime: the deadline is computed from the
\* expire seconds the context holds now
extend_delivery_lifetime(qc, t) ==
    [qc EXCEPT !.delivery_deadline = t + qc.delivery_expire_seconds]

\* QueryContext::extend_query_lifetime
extend_query_lifetime(qc, t) ==
    [qc EXCEPT !.query_deadline = t + qc.query_expire_seconds]

\* lines 132-136: set both expire seconds, then extend both deadlines
set_lifetime(qc, o, t) ==
    extend_query_lifetime(
        extend_delivery_lifetime(
            [qc EXCEPT !.delivery_expire_seconds = calc_delivery_expired_seconds(o),
                       !.query_expire_seconds = calc_query_expired_seconds(o)],
            t),
        t)

\* ------------------------------------------------ scan ranges, query cache
\* tablet ids and partition ids of the scan ranges
Tablets == {1, 2, 3, 4}
Partitions == {1, 2}

\* sizeof(partition_id), sizeof(tablet_id): both are int64_t
SIZEOF_INT64 == 8

\* the object representation of an integer of n bytes, low byte first
RECURSIVE Bytes(_, _)
Bytes(x, n) == IF n = 0 THEN <<>> ELSE <<x % 256>> \o Bytes(x \div 256, n - 1)

\* lines 423-429: partition id, region, tablet id, byte by byte
cache_prefix_key(partition_id, region, tablet_id) ==
    Bytes(partition_id, SIZEOF_INT64) \o region \o Bytes(tablet_id, SIZEOF_INT64)

\* cache_param.cache_key_prefixes before any key is computed; <<>> stands
\* for a tablet without an entry
NoPrefixes == [t \in Tablets |-> <<>>]

ScanRange(tablet_id, partition_id, internal) ==
    [tablet_id |-> tablet_id, partition_id |-> partition_id,
     internal |-> internal]

\* a scan node of the plan: its per-driver-sequence scan ranges (one
\* sequence of ranges per lane, <<>> for an empty map), its limit, its
\* io_tasks_per_scan_operator, whether its morsel queue factory is shared
\* and whether convert_scan_range_to_morsel_queue_factory succeeds
ScanNode(id, per_driver_seq, limit, io_tasks, is_shared, convert_ok) ==
    [id |-> id, per_driver_seq |-> per_driver_seq, limit |-> limit,
     io_tasks |-> io_tasks, is_shared |-> is_shared, convert_ok |-> convert_ok]

RECURSIVE Flatten(_)
Flatten(ss) == IF ss = <<>> THEN <<>> ELSE Head(ss) \o Flatten(Tail(ss))

\* line 419: tcache_param.region_map.count(partition_id)
has_region(region_map, partition_id) == partition_id \in DOMAIN region_map

\* lines 410-432: the keys after the ranges of one scan node, lane by lane
RECURSIVE compute_cache_key_prefixes(_, _, _)
compute_cache_key_prefixes(prefixes, region_map, ranges) ==
    IF ranges = <<>> THEN prefixes
    ELSE LET r == Head(ranges)
             next == IF r.internal /\ has_region(region_map, r.partition_id)
                     THEN [prefixes EXCEPT ![r.tablet_id] =
                              cache_prefix_key(r.partition_id,
                                               region_map[r.partition_id],
                                               r.tablet_id)]
                     ELSE prefixes
         IN compute_cache_key_prefixes(next, region_map, Tail(ranges))

\* a loop that leaves caching on when a per-lane map is empty
keep_enable_cache(enable_cache, node) == enable_cache

\* lines 403-405: an empty per-driver-sequence map turns caching off
enable_cache_after(enable_cache, node) ==
    enable_cache /\ node.per_driver_seq # <<>>

\* a key computation that ignores cached_plan_node_ids
should_compute_for_every_node(enable_cache, cached_plan_node_ids, id) ==
    enable_cache

\* lines 407-408
should_compute_cache_key_prefix(enable_cache, cached_plan_node_ids, id) ==
    enable_cache /\ id \in cached_plan_node_ids

\* a loop that leaves the requested shared scan on
keep_shared_scan(enable_cache, enable_shared_scan) == enable_shared_scan

\* lines 437-439: caching turns the shared scan off, for this node and for
\* the nodes after it
shared_scan_after(enable_cache, enable_shared_scan) ==
    IF enable_cache THEN FALSE ELSE enable_shared_scan

\* lines 341, 374-393: the state the scan-node loop starts from
exec_plan_begin(x) ==
    LET cached == x.cache_param /\ ~x.enable_spill IN
    [enable_cache |-> cached,
     cached_plan_node_ids |-> IF cached THEN x.cached_plan_node_ids ELSE {},
     enable_shared_scan |-> x.enable_shared_scan,
     cache_key_prefixes |-> NoPrefixes,
     morsel_queue_factories |-> {},
     shared_scan |-> <<>>,
     status |-> "OK"]

\* lines 395-447: the loop over the scan nodes, from node i on; a failing
\* conversion returns from inside the loop
RECURSIVE set_scan_ranges(_, _, _)
set_scan_ranges(x, st, i) ==
    IF i > Len(x.scan_nodes) THEN st
    ELSE LET node == x.scan_nodes[i]
             cache == enable_cache_after(st.enable_cache, node)
             prefixes ==
                 IF should_compute_cache_key_prefix(
                        cache, st.cached_plan_node_ids, node.id)
                 THEN compute_cache_key_prefixes(st.cache_key_prefixes,
                          x.region_map, Flatten(node.per_driver_seq))
                 ELSE st.cache_key_prefixes
             shared == shared_scan_after(cache, st.enable_shared_scan)
             st1 == [st EXCEPT !.enable_cache = cache,
                               !.cache_key_prefixes = prefixes,
                               !.enable_shared_scan = shared]
         IN IF ~node.convert_ok
            THEN [st1 EXCEPT !.status = "InternalError"]
            ELSE set_scan_ranges(x,
                     [st1 EXCEPT !.shared_scan =
                                     Append(@, shared /\ node.is_shared),
                                 !.morsel_queue_factories = @ \cup {node.id}],
                     i + 1)

\* a limit that is not rounded up to the chunk size
unnormalized_limit(limit, chunk_size) == limit

\* line 459
normalized_limit(limit, chunk_size) ==
    ((limit + chunk_size - 1) \div chunk_size) * chunk_size

\* lines 449-466: the logical and the physical scan limit, from node i on;
\* the loop stops at the first scan node without a limit
RECURSIVE scan_limits(_, _, _)
scan_limits(x, acc, i) ==
    IF i > Len(x.scan_nodes) THEN acc
    ELSE LET node == x.scan_nodes[i] IN
         IF node.limit > 0
         THEN scan_limits(x,
                  [logical |-> acc.logical + node.limit,
                   physical |-> acc.physical
                       + normalized_limit(node.limit, x.chunk_size)
                             * x.dop * node.io_tasks],
                  i + 1)
         ELSE [acc EXCEPT !.logical = -1]

\* a limit that always blends in the physical estimate
set_scan_limit_always_blended(big_query_scan_rows_limit, limits, scan_limit) ==
    IF big_query_scan_rows_limit > 0
    THEN Max(big_query_scan_rows_limit, limits.physical)
    ELSE scan_limit

\* lines 468-474: the scan limit of the query after _prepare_exec_plan
set_scan_limit(big_query_scan_rows_limit, limits, scan_limit) ==
    IF big_query_scan_rows_limit > 0
    THEN (IF limits.logical >= 0 /\ limits.logical <= big_query_scan_rows_limit
          THEN Max(big_query_scan_rows_limit, limits.physical)
          ELSE big_query_scan_rows_limit)
    ELSE scan_limit

\* ------------------------------------------------------------ the requests
\* what _prepare_exec_plan reads of the request, of the runtime state and
\* of the resource group
ExecInput(cache_param, enable_spill, enable_shared_scan, cached_plan_node_ids, region_map, scan_nodes, big_query_scan_rows_limit, create_tree_ok) ==
    [cache_param |-> cache_param, enable_spill |-> enable_spill,
     enable_shared_scan |-> enable_shared_scan,
     cached_plan_node_ids |-> cached_plan_node_ids,
     region_map |-> region_map, scan_nodes |-> scan_nodes,
     big_query_scan_rows_limit |-> big_query_scan_rows_limit,
     create_tree_ok |-> create_tree_ok,
     chunk_size |-> 4, dop |-> 2]

NoExecInput == ExecInput(FALSE, FALSE, FALSE, {}, <<>>, <<>>, 0, TRUE)

\* scan node 1 reads tablets 1 and 2 of partition 1 and tablet 3 of
\* partition 2 on two lanes; scan node 2 reads tablet 4 of partition 1 and
\* a range that is not an internal scan range on one lane
Lanes1 == << <<ScanRange(1, 1, TRUE)>>,
             <<ScanRange(2, 1, TRUE), ScanRange(3, 2, TRUE)>> >>
Lanes2 == << <<ScanRange(4, 1, TRUE), ScanRange(0, 0, FALSE)>> >>
LanesOf(id) == IF id = 1 THEN Lanes1 ELSE Lanes2

\* partition 1 has a region; partition 2 has none, or an empty one
RegionMaps == {1 :> <<171, 205>>, (1 :> <<171, 205>>) @@ (2 :> <<>>)}

SimpleScan ==
    ExecInput(FALSE, FALSE, FALSE, {}, <<>>,
              <<ScanNode(1, Lanes1, -1, 1, FALSE, TRUE)>>, 0, TRUE)

CacheScanNode(id) ==
    {ScanNode(id, lanes, -1, 1, is_shared, convert_ok) :
        lanes \in {<<>>, LanesOf(id)}, is_shared \in BOOLEAN,
        convert_ok \in BOOLEAN}

CacheInputs ==
    {ExecInput(cache_param, enable_spill, enable_shared_scan, ids, region_map,
               scan_nodes, 0, TRUE) :
        cache_param \in BOOLEAN, enable_spill \in BOOLEAN,
        enable_shared_scan \in BOOLEAN, ids \in {{1}, {2}, {1, 2}},
        region_map \in RegionMaps,
        scan_nodes \in {<<n>> : n \in CacheScanNode(1)}
            \cup {<<n, m>> : n \in CacheScanNode(1), m \in CacheScanNode(2)}}

LimitScanNode(id) ==
    {ScanNode(id, LanesOf(id), limit, io_tasks, FALSE, TRUE) :
        limit \in {-1, 3, 5}, io_tasks \in {1, 2}}

LimitInputs ==
    {ExecInput(FALSE, FALSE, FALSE, {}, <<>>, scan_nodes, ceiling, TRUE) :
        ceiling \in {0, 6},
        scan_nodes \in {<<>>} \cup {<<n>> : n \in LimitScanNode(1)}
            \cup {<<n, m>> : n \in LimitScanNode(1), m \in LimitScanNode(2)}}

\* --------------------------------------------------------- fragment context
NoScanLimits == [logical |-> 0, physical |-> 0]

NoFragmentContext ==
    [alive |-> FALSE, plan |-> NoPlan, drivers |-> <<>>, token |-> 0,
     pass_through |-> FALSE, pass_through_prepares |-> 0,
     pass_through_destroys |-> 0, stream_load_contexts |-> <<>>,
     enable_cache |-> FALSE, cache_key_prefixes |-> NoPrefixes,
     morsel_queue_factories |-> {}, shared_scan |-> <<>>,
     scan_limits |-> NoScanLimits, morsel_queue_factory |-> <<>>]

\* references to the FragmentContext of e: the executor's member and the
\* registry entry
RegisteredBy(e) == {f \in FragIds : registry[f] = e}


\* the fragment contexts no reference is left to, once the executors'
\* members are m and the registry is r (std::shared_ptr<FragmentContext>)
Unreferenced(fc, m, r) ==
    {x \in Executors : fc[x].alive /\ ~m[x] /\ \A f \in FragIds : r[f] # x}

\* ~FragmentContext releases the driver token it holds (DriverLimiter::Token)
Destroy(fc, m, r) ==
    LET dead == Unreferenced(fc, m, r) IN
    /\ fctx' = [x \in Executors |->
                   IF x \in dead
                   THEN [fc[x] EXCEPT !.alive = FALSE, !.token = 0,
                                      !.drivers = [p \in DOMAIN @ |-> 0]]
                   ELSE fc[x]]
    /\ released' = [x \in Executors |->
                   IF x \in dead /\ fctx[x].token > 0
                   THEN released[x] + 1 ELSE released[x]]
    /\ num_total_drivers' = num_total_drivers
           - SumSeq([x \in Executors |->
                        IF x \in dead THEN fctx[x].token ELSE 0])

\* FragmentContextManager::unregister
unregister(r, f) == [r EXCEPT ![f] = 0]

\* ---------------------------------------------------------------- prepare
\* a prepare that drops the error of a step and goes on to mark_prepared
PrepareFails_ignored(e, st, step) ==
    /\ prepare_status' = [prepare_status EXCEPT ![e] = st]
    /\ fail_step' = [fail_step EXCEPT ![e] = step]
    /\ pc' = [pc EXCEPT ![e] = "mark_prepared"]

\* RETURN_IF_ERROR in prepare(): the error is returned, the DeferOp runs
PrepareFails(e, st, step) ==
    /\ prepare_status' = [prepare_status EXCEPT ![e] = st]
    /\ fail_step' = [fail_step EXCEPT ![e] = step]
    /\ pc' = [pc EXCEPT ![e] = "prepare_defer"]

Goto(e, next) ==
    /\ pc' = [pc EXCEPT ![e] = next]
    /\ UNCHANGED <<prepare_status, fail_step>>

\* prepare(), line 706: the process-wide memory pre-check
check_mem_limit(e) ==
    /\ pc[e] = "init"
    /\ \E ok \in BOOLEAN :
          IF ok THEN Goto(e, "prepare_query_ctx")
          ELSE PrepareFails(e, "ResourceExhausted", "check_mem_limit")
    /\ UNCHANGED <<request, execute_status, query_ctx_ptr, fragment_ctx_ptr,
                   fragVars, sharedVars, now>>

\* lines 118-124: a fragment context of this identity is registered
duplicate_invocation(qc, r, f) == qc.exists /\ r[f] # 0

\* _prepare_query_ctx, lines 110-124: the duplicate check
prepare_query_ctx(e, f) ==
    /\ pc[e] = "prepare_query_ctx"
    /\ request' = [request EXCEPT ![e].fid = f]
    /\ IF duplicate_invocation(query_ctx, registry, f)
       THEN PrepareFails(e, "DuplicateInvocation", "prepare_query_ctx")
       ELSE Goto(e, "get_or_register")
    /\ UNCHANGED <<execute_status, query_ctx_ptr, fragment_ctx_ptr,
                   fragVars, sharedVars, now>>

\* _prepare_query_ctx, lines 126-161
prepare_query_ctx_register(e, o) ==
    /\ pc[e] = "get_or_register"
    /\ request' = [request EXCEPT ![e].options = o]
    /\ query_ctx' = set_lifetime(get_or_register(query_ctx), o, now)
    /\ query_ctx_ptr' = [query_ctx_ptr EXCEPT ![e] = TRUE]
    /\ Goto(e, "prepare_fragment_ctx")
    /\ UNCHANGED <<execute_status, fragment_ctx_ptr, fragVars,
                   registry, num_total_drivers, now>>

\* _prepare_fragment_ctx, lines 164-185
prepare_fragment_ctx(e) ==
    /\ pc[e] = "prepare_fragment_ctx"
    /\ fctx' = [fctx EXCEPT ![e] = [NoFragmentContext EXCEPT !.alive = TRUE]]
    /\ fragment_ctx_ptr' = [fragment_ctx_ptr EXCEPT ![e] = TRUE]
    /\ Goto(e, "prepare_workgroup")
    /\ UNCHANGED <<request, execute_status, query_ctx_ptr, released,
                   prepared_drivers, submitted_drivers, events,
                   deferred_drivers, sharedVars, now>>

\* _prepare_workgroup, lines 187-212: init_query_once may fail
prepare_workgroup(e) ==
    /\ pc[e] = "prepare_workgroup"
    /\ \E ok \in BOOLEAN :
          IF ok THEN Goto(e, "prepare_runtime_state")
          ELSE PrepareFails(e, "InternalError", "prepare_workgroup")
    /\ UNCHANGED <<request, execute_status, query_ctx_ptr, fragment_ctx_ptr,
                   fragVars, sharedVars, now>>

\* TDescriptorTable of the request, lines 271-272: is_cached is not set
\* ("unset"), set to false with the full table ("full"), or set to true for
\* the table an earlier fragment has left in the query context ("cached")
DescTables == {"unset", "full", "cached"}

\* lines 273-276: the cached table is read from the query context and is
\* missing when no fragment has stored it
cached_desc_tbl_always_found(qc) == FALSE

cached_desc_tbl_missing(qc) == ~qc.desc_tbl

\* _prepare_runtime_state, lines 214-292: the pass-through chunk buffer is
\* prepared at line 266, before the descriptor table is resolved at lines
\* 269-286; DescriptorTbl::create (lines 278, 283) and init_spill_manager
\* (line 288) may fail
prepare_runtime_state(e, d) ==
    /\ pc[e] = "prepare_runtime_state"
    /\ request' = [request EXCEPT ![e].desc = d]
    /\ fctx' = [fctx EXCEPT ![e].pass_through = TRUE,
                            ![e].pass_through_prepares = @ + 1]
    /\ IF d = "cached" /\ cached_desc_tbl_missing(query_ctx)
       THEN /\ PrepareFails(e, "Cancelled", "prepare_runtime_state")
            /\ UNCHANGED query_ctx
       ELSE \E create_ok \in BOOLEAN, spill_ok \in BOOLEAN :
              /\ query_ctx' = IF d = "full" /\ create_ok
                              THEN [query_ctx EXCEPT !.desc_tbl = TRUE]
                              ELSE query_ctx
              /\ IF (d = "cached" \/ create_ok) /\ spill_ok
                 THEN Goto(e, "prepare_global_dict")
                 ELSE PrepareFails(e, "InternalError",
                                   "prepare_runtime_state")
    /\ UNCHANGED <<execute_status, query_ctx_ptr, fragment_ctx_ptr,
                   released, prepared_drivers, submitted_drivers, events,
                   deferred_drivers, registry, num_total_drivers, now>>

\* _prepare_global_dict, lines 625-641
prepare_global_dict(e) ==
    /\ pc[e] = "prepare_global_dict"
    /\ \E ok \in BOOLEAN :
          IF ok THEN Goto(e, "prepare_exec_plan")
          ELSE PrepareFails(e, "InternalError", "prepare_global_dict")
    /\ UNCHANGED <<request, execute_status, query_ctx_ptr, fragment_ctx_ptr,
                   fragVars, sharedVars, now>>

\* _prepare_exec_plan, lines 331-477: create_tree or the conversion of the
\* scan ranges of a scan node may fail
prepare_exec_plan(e, x) ==
    /\ pc[e] = "prepare_exec_plan"
    /\ request' = [request EXCEPT ![e].exec = x]
    /\ IF ~x.create_tree_ok
       THEN /\ PrepareFails(e, "InvalidPlan", "prepare_exec_plan")
            /\ UNCHANGED <<fctx, query_ctx>>
       ELSE LET st == set_scan_ranges(x, exec_plan_begin(x), 1)
                fc == [fctx[e] EXCEPT
                          !.enable_cache = st.enable_cache,
                          !.cache_key_prefixes = st.cache_key_prefixes,
                          !.morsel_queue_factories = st.morsel_queue_factories,
                          !.shared_scan = st.shared_scan]
                limits == scan_limits(x, NoScanLimits, 1)
            IN IF st.status # "OK"
               THEN /\ fctx' = [fctx EXCEPT ![e] = fc]
                    /\ PrepareFails(e, st.status, "prepare_exec_plan")
                    /\ UNCHANGED query_ctx
               ELSE /\ fctx' = [fctx EXCEPT ![e] =
                                   [fc EXCEPT !.scan_limits = limits]]
                    /\ query_ctx' = [query_ctx EXCEPT !.scan_limit =
                           set_scan_limit(x.big_query_scan_rows_limit, limits, @)]
                    /\ Goto(e, "prepare_pipeline_driver")
    /\ UNCHANGED <<execute_status, query_ctx_ptr, fragment_ctx_ptr, released,
                   prepared_drivers, submitted_drivers, events,
                   deferred_drivers, registry, num_total_drivers, now>>


\* ------------------------------------------------- _prepare_pipeline_driver
\* a loop that instantiates every pipeline at once
is_deferred_never(plan, p) == FALSE

\* line 605: the pipeline's source is not initially active in its group
is_deferred(plan, p) == ~plan.active[p]

\* lines 603-612: the drivers each pipeline has after the loop
instantiate_drivers(plan) ==
    [p \in Pipelines(plan) |-> IF is_deferred(plan, p) THEN 0 ELSE plan.dop[p]]

\* a map of the deferred pipelines that is keyed by the pipeline itself
group_leader_self(plan, p) == p

\* line 606: source_op->group_leader()
group_leader(plan, p) == plan.leader[p]

\* lines 602-609: the deferred pipelines, collected per group leader
unready_pipeline_groups(plan) ==
    LET deferred == {p \in Pipelines(plan) : is_deferred(plan, p)} IN
    [l \in {group_leader(plan, p) : p \in deferred} |->
        {p \in deferred : group_leader(plan, p) = l}]

\* PipelineBuilder: the sources that take morsels are the scan nodes of the
\* plan tree, whose scan ranges _prepare_exec_plan has converted
builder_output(plan, x) ==
    {plan.source[p] : p \in Pipelines(plan)} \ {0}
        \subseteq {x.scan_nodes[i].id : i \in DOMAIN x.scan_nodes}

\* a loop that attaches the factories of the active pipelines only
with_morsels_if_active(plan, p) == plan.source[p] # 0 /\ plan.active[p]

\* line 593: source_operator_factory()->with_morsels()
with_morsels(plan, p) == plan.source[p] # 0

\* lines 592-600: the plan-node id of the factory attached to the source of
\* each pipeline, 0 where none is attached
set_morsel_queue_factory(plan, morsel_queue_factories) ==
    [p \in Pipelines(plan) |->
        IF with_morsels(plan, p) /\ plan.source[p] \in morsel_queue_factories
        THEN plan.source[p] ELSE 0]

\* an event that is not made to wait for the dependency pipelines
group_event_dependencies_blocking_only(plan, l) ==
    [blocking |-> plan.blocking[l], pipes |-> {}]

\* lines 541-546: what the group-initialize event of leader l waits for
group_event_dependencies(plan, l) ==
    [blocking |-> plan.blocking[l], pipes |-> plan.deps[l]]

\* create_adaptive_group_initialize_events, lines 531-550: one event per
\* leader of unready_pipeline_groups
create_adaptive_group_initialize_events(plan) ==
    LET groups == unready_pipeline_groups(plan) IN
    [l \in DOMAIN groups |->
        [pipelines |-> groups[l],
         blocking |-> group_event_dependencies(plan, l).blocking,
         pipes |-> group_event_dependencies(plan, l).pipes]]

NoEvents ==
    [groups |-> <<>>, blocking_fired |-> {}, pipeline_fired |-> {},
     group_fired |-> {}]

\* lines 552-616: build the pipelines (sink creation or
\* prepare_all_pipelines may fail), instantiate the drivers of the active
\* pipelines, wire the group-initialize events
prepare_pipeline_driver(e, plan) ==
    /\ pc[e] = "prepare_pipeline_driver"
    /\ builder_output(plan, request[e].exec)
    /\ \E ok \in BOOLEAN :
          IF ok
          THEN /\ fctx' = [fctx EXCEPT ![e].plan = plan,
                                       ![e].morsel_queue_factory =
                                           set_morsel_queue_factory(plan,
                                               fctx[e].morsel_queue_factories),
                                       ![e].drivers = instantiate_drivers(plan)]
               /\ events' = [events EXCEPT ![e].groups =
                                create_adaptive_group_initialize_events(plan)]
               /\ Goto(e, "try_acquire")
          ELSE /\ PrepareFails(e, "InternalError", "prepare_pipeline_driver")
               /\ UNCHANGED <<fctx, events>>
    /\ UNCHANGED <<request, execute_status, query_ctx_ptr, fragment_ctx_ptr,
                   released, prepared_drivers, submitted_drivers,
                   deferred_drivers, sharedVars, now>>

\* a token of no lanes
token_request_nothing(plan) == 0

\* a token that covers the lanes of the first pipeline only
token_request_first_pipeline(plan) == plan.dop[1]

\* a token that covers the instantiated drivers only
token_request_active_only(plan) == SumSeq(instantiate_drivers(plan))

\* line 619: the size of the token asked of the limiter
token_request(plan) == total_dop(plan)

\* DriverLimiter::try_acquire(n): granted while the process-wide budget
\* holds n more lanes
limiter_grants(total, n) == total + n <= MaxNumDrivers

\* lines 618-620: acquire the driver token
try_acquire(e) ==
    /\ pc[e] = "try_acquire"
    /\ LET n == token_request(fctx[e].plan) IN
       IF limiter_grants(num_total_drivers, n)
       THEN /\ num_total_drivers' = num_total_drivers + n
            /\ fctx' = [fctx EXCEPT ![e].token = n]
            /\ Goto(e, "prepare_stream_load_pipe")
       ELSE /\ PrepareFails(e, "ResourceExhausted", "try_acquire")
            /\ UNCHANGED <<num_total_drivers, fctx>>
    /\ UNCHANGED <<request, execute_status, query_ctx_ptr, fragment_ctx_ptr,
                   released, prepared_drivers, submitted_drivers, events,
                   deferred_drivers, query_ctx, registry, now>>

\* ------------------------------------------------------------ stream load
\* node_to_per_driver_seq_scan_ranges, line 484: per scan node (in the
\* order of the std::map) the lanes, per lane its scan ranges; a range is a
\* broker scan range or not, and a broker range has a channel id or not
LoadRange(id, broker, channel) ==
    [id |-> id, broker |-> broker, channel |-> channel]

NoScanRangeMap == <<>>

\* one scan node with one lane that reads one broker range over a channel
OneChannelLoad == <<(<<(<<LoadRange(1, TRUE, TRUE)>>)>>)>>

\* lines 488-503: nothing is done unless the first range of the first lane
\* of the first scan node is a broker scan range with a channel id
is_channel_stream_load(scan_range_map) ==
    /\ scan_range_map # <<>>
    /\ scan_range_map[1] # <<>>
    /\ scan_range_map[1][1] # <<>>
    /\ scan_range_map[1][1][1].broker
    /\ scan_range_map[1][1][1].channel

\* lines 506-524 for the first scan node: iter2 walks its lanes, a context
\* is made for every range of every lane
contexts_of_node(node) == [i \in 1..Len(Flatten(node)) |-> Flatten(node)[i].id]

\* lines 506-507 for a later scan node: iter2 is still the end iterator of
\* the first node's map and is compared with the end of another map; the
\* behaviour is undefined. The build may fault, may leave the loop at once,
\* or may walk the first node's tree again
UndefinedOutcomes == {"fault", "stop", "again"}

stream_load_contexts(scan_range_map, outcome) ==
    LET first == contexts_of_node(scan_range_map[1]) IN
    IF Len(scan_range_map) = 1 \/ outcome = "stop" THEN first
    ELSE first \o first

\* _prepare_stream_load_pipe, lines 479-529; create_channel_context and
\* put_channel_context (lines 514-521) may fail
prepare_stream_load_pipe(e, scan_range_map) ==
    /\ pc[e] = "prepare_stream_load_pipe"
    /\ request' = [request EXCEPT ![e].load = scan_range_map]
    /\ IF ~is_channel_stream_load(scan_range_map)
       THEN /\ Goto(e, "register_ctx")
            /\ UNCHANGED fctx
       ELSE \E ok \in BOOLEAN, outcome \in UndefinedOutcomes :
              IF ~ok
              THEN /\ PrepareFails(e, "InternalError",
                                   "prepare_stream_load_pipe")
                   /\ UNCHANGED fctx
              ELSE IF Len(scan_range_map) > 1 /\ outcome = "fault"
              THEN /\ pc' = [pc EXCEPT ![e] = "crashed"]
                   /\ UNCHANGED <<prepare_status, fail_step, fctx>>
              ELSE /\ fctx' = [fctx EXCEPT ![e].stream_load_contexts =
                          stream_load_contexts(scan_range_map, outcome)]
                   /\ Goto(e, "register_ctx")
    /\ UNCHANGED <<execute_status, query_ctx_ptr, fragment_ctx_ptr,
                   released, prepared_drivers, submitted_drivers, events,
                   deferred_drivers, sharedVars, now>>

\* line 737, FragmentContextManager::register_ctx: an identity that is
\* already registered is refused, not overwritten
register_ctx(e) ==
    /\ pc[e] = "register_ctx"
    /\ IF registry[request[e].fid] # 0
       THEN /\ PrepareFails(e, "InternalError", "register_ctx")
            /\ UNCHANGED registry
       ELSE /\ registry' = [registry EXCEPT ![request[e].fid] = e]
            /\ Goto(e, "mark_prepared")
    /\ UNCHANGED <<request, execute_status, query_ctx_ptr, fragment_ctx_ptr,
                   fragVars, query_ctx, num_total_drivers, now>>

\* lines 738-741: mark_prepared, prepare_success = true, return OK
mark_prepared(e) ==
    /\ pc[e] = "mark_prepared"
    /\ query_ctx' = [query_ctx EXCEPT !.prepared = TRUE]
    /\ prepare_status' = [prepare_status EXCEPT ![e] = "OK"]
    /\ pc' = [pc EXCEPT ![e] = "prepared"]
    /\ UNCHANGED <<request, execute_status, fail_step, query_ctx_ptr,
                   fragment_ctx_ptr, fragVars, registry, num_total_drivers,
                   now>>

\* ---------------------------------------------------------- _fail_cleanup
\* a _fail_cleanup that tests _query_ctx the wrong way
has_query_ctx_negated(e) == ~query_ctx_ptr[e]

\* a _fail_cleanup that does not test _query_ctx
has_query_ctx_unchecked(e) == TRUE

\* line 796: if (_query_ctx)
has_query_ctx(e) == query_ctx_ptr[e]

\* a _fail_cleanup that never unregisters
should_unregister_never(fragment_has_registed) == FALSE

\* line 798: if (fragment_has_registed)
should_unregister(fragment_has_registed) == fragment_has_registed

\* a _fail_cleanup that keeps the executor's reference
reset_fragment_ctx_skipped(m, e) == m

\* line 802: _fragment_ctx.reset()
reset_fragment_ctx(m, e) == [m EXCEPT ![e] = FALSE]

\* _fail_cleanup, lines 795-806
fail_cleanup(e, fragment_has_registed) ==
    IF has_query_ctx(e)
    THEN LET has_fragment == fragment_ctx_ptr[e]
             r2 == IF has_fragment /\ should_unregister(fragment_has_registed)
                   THEN unregister(registry, request[e].fid)
                   ELSE registry
             m2 == IF has_fragment
                   THEN reset_fragment_ctx(fragment_ctx_ptr, e)
                   ELSE fragment_ctx_ptr
             fc == IF has_fragment
                   THEN [fctx EXCEPT ![e].pass_through = FALSE,
                                     ![e].pass_through_destroys = @ + 1]
                   ELSE fctx
         IN /\ registry' = r2
            /\ fragment_ctx_ptr' = m2
            /\ Destroy(fc, m2, r2)
            /\ query_ctx' = count_down_fragments(query_ctx)
    ELSE UNCHANGED <<registry, fragment_ctx_ptr, fctx, released,
                     num_total_drivers, query_ctx>>

\* prepare(), lines 662-703: the deferred cleanup of a failed prepare
prepare_defer(e) ==
    /\ pc[e] = "prepare_defer"
    /\ fail_cleanup(e, FALSE)
    /\ pc' = [pc EXCEPT ![e] = "done"]
    /\ UNCHANGED <<request, prepare_status, execute_status, fail_step,
                   query_ctx_ptr, prepared_drivers, submitted_drivers, events,
                   deferred_drivers, now>>


\* ----------------------------------------------------------------- execute
\* an iteration that visits every pipeline
visits_every_pipeline(plan, p) == TRUE

\* line 764: iterate_active_drivers skips the pipelines whose source is not
\* initially active
visits_pipeline(plan, p) == plan.active[p]

DriversOf(p, n) == [i \in 1..n |-> <<p, i>>]

RECURSIVE ActiveFrom(_, _, _)
ActiveFrom(plan, drivers, p) ==
    IF p > Len(plan.dop) THEN <<>>
    ELSE (IF visits_pipeline(plan, p) THEN DriversOf(p, drivers[p]) ELSE <<>>)
         \o ActiveFrom(plan, drivers, p + 1)

\* lines 757-778: the drivers the lambda is called with, in order
iterate_active_drivers(fc) == ActiveFrom(fc.plan, fc.drivers, 1)

\* a prepare loop that tests the status of driver->prepare the wrong way
driver_prepare_aborts_inverted(ok) == ok

\* a prepare loop that drops the status of driver->prepare
driver_prepare_never_aborts(ok) == FALSE

\* line 783: RETURN_IF_ERROR on the status of driver->prepare
driver_prepare_aborts(ok) == ~ok

\* execute(), lines 780-786: prepare the active drivers one by one
execute_prepare_driver(e) ==
    /\ pc[e] = "prepared"
    /\ LET todo == iterate_active_drivers(fctx[e])
           k == Len(prepared_drivers[e])
       IN IF k = Len(todo)
          THEN /\ pc' = [pc EXCEPT ![e] = "execute_submit"]
               /\ UNCHANGED <<prepared_drivers, execute_status, fail_step>>
          ELSE \E ok \in BOOLEAN :
                 /\ prepared_drivers' = [prepared_drivers EXCEPT ![e] =
                        Append(@, [driver |-> todo[k + 1], ok |-> ok])]
                 /\ IF driver_prepare_aborts(ok)
                    THEN /\ execute_status' =
                               [execute_status EXCEPT ![e] = "InternalError"]
                         /\ fail_step' = [fail_step EXCEPT ![e] = "driver_prepare"]
                         /\ pc' = [pc EXCEPT ![e] = "execute_defer"]
                    ELSE UNCHANGED <<execute_status, fail_step, pc>>
    /\ UNCHANGED <<request, prepare_status, query_ctx_ptr, fragment_ctx_ptr,
                   fctx, released, submitted_drivers, events,
                   deferred_drivers, sharedVars, now>>

\* execute(), lines 788-792: submit the active drivers one by one, return OK
execute_submit_driver(e) ==
    /\ pc[e] = "execute_submit"
    /\ LET todo == iterate_active_drivers(fctx[e])
           k == Len(submitted_drivers[e])
       IN IF k = Len(todo)
          THEN /\ execute_status' = [execute_status EXCEPT ![e] = "OK"]
               /\ pc' = [pc EXCEPT ![e] = "executing"]
               /\ UNCHANGED submitted_drivers
          ELSE /\ submitted_drivers' = [submitted_drivers EXCEPT ![e] =
                        Append(@, todo[k + 1])]
               /\ UNCHANGED <<execute_status, pc>>
    /\ UNCHANGED <<request, prepare_status, fail_step, query_ctx_ptr,
                   fragment_ctx_ptr, fctx, released, prepared_drivers, events,
                   deferred_drivers, sharedVars, now>>

\* execute(), lines 746-750: the deferred cleanup of a failed execute
execute_defer(e) ==
    /\ pc[e] = "execute_defer"
    /\ fail_cleanup(e, TRUE)
    /\ pc' = [pc EXCEPT ![e] = "done"]
    /\ UNCHANGED <<request, prepare_status, execute_status, fail_step,
                   query_ctx_ptr, prepared_drivers, submitted_drivers, events,
                   deferred_drivers, now>>

\* ------------------------------------------- the fragment after execute()
Range(s) == {s[i] : i \in DOMAIN s}

SubmittedDrivers(e) == Range(submitted_drivers[e]) \cup Range(deferred_drivers[e])

\* Pipeline::pipeline_event: fires when every driver of the pipeline has run
pipeline_finish(e, p) ==
    /\ fctx[e].alive
    /\ p \in Pipelines(fctx[e].plan)
    /\ p \notin events[e].pipeline_fired
    /\ fctx[e].drivers[p] > 0
    /\ Range(DriversOf(p, fctx[e].drivers[p])) \subseteq SubmittedDrivers(e)
    /\ events' = [events EXCEPT ![e].pipeline_fired = @ \cup {p}]
    /\ UNCHANGED <<execVars, fctx, released, prepared_drivers,
                   submitted_drivers, deferred_drivers, sharedVars, now>>

\* SourceOperatorFactory::adaptive_blocking_event of leader l: fires once the
\* running fragment has gathered the leader's statistics
fire_blocking_event(e, l) ==
    /\ fctx[e].alive
    /\ l \in Pipelines(fctx[e].plan)
    /\ fctx[e].plan.blocking[l]
    /\ l \notin events[e].blocking_fired
    /\ submitted_drivers[e] # <<>>
    /\ events' = [events EXCEPT ![e].blocking_fired = @ \cup {l}]
    /\ UNCHANGED <<execVars, fctx, released, prepared_drivers,
                   submitted_drivers, deferred_drivers, sharedVars, now>>

\* Event::add_dependency / finish_dependency: an event is processed by the
\* dependency that finishes last, from the continuation list it was added
\* to; an event that was added to no list is processed by nobody
event_ready(ev, l, fired) ==
    /\ ev.blocking \/ ev.pipes # {}
    /\ ev.blocking => l \in fired.blocking_fired
    /\ ev.pipes \subseteq fired.pipeline_fired

RECURSIVE ConcatDrivers(_, _, _)
ConcatDrivers(ps, n, p) ==
    IF p > Len(n) THEN <<>>
    ELSE (IF p \in ps THEN DriversOf(p, n[p]) ELSE <<>>)
         \o ConcatDrivers(ps, n, p + 1)

\* the collect-stats source-initialize event of leader l: adjusts the dop of
\* its pipelines, instantiates their drivers, prepares and submits them
fire_group_initialize_event(e, l, shrink) ==
    /\ fctx[e].alive
    /\ l \in DOMAIN events[e].groups
    /\ l \notin events[e].group_fired
    /\ event_ready(events[e].groups[l], l, events[e])
    /\ LET ps == events[e].groups[l].pipelines
           n == [p \in Pipelines(fctx[e].plan) |->
                    IF p \in ps
                    THEN (IF shrink THEN 1 ELSE fctx[e].plan.dop[p])
                    ELSE fctx[e].drivers[p]]
       IN /\ fctx' = [fctx EXCEPT ![e].drivers = n]
          /\ deferred_drivers' = [deferred_drivers EXCEPT ![e] =
                                     @ \o ConcatDrivers(ps, n, 1)]
    /\ events' = [events EXCEPT ![e].group_fired = @ \cup {l}]
    /\ UNCHANGED <<execVars, released, prepared_drivers, submitted_drivers,
                   sharedVars, now>>

\* the last driver of the fragment finishes: the fragment leaves the
\* registry and the query loses one live fragment
fragment_finish(e) ==
    /\ fctx[e].alive
    /\ request[e].fid \in FragIds
    /\ registry[request[e].fid] = e
    /\ Pipelines(fctx[e].plan) # {}
    /\ Pipelines(fctx[e].plan) \subseteq events[e].pipeline_fired
    /\ LET r2 == unregister(registry, request[e].fid) IN
       /\ registry' = r2
       /\ Destroy(fctx, fragment_ctx_ptr, r2)
    /\ query_ctx' = count_down_fragments(query_ctx)
    /\ UNCHANGED <<execVars, prepared_drivers, submitted_drivers, events,
                   deferred_drivers, now>>

\* ~FragmentExecutor after a successful execute(): the member reference to
\* the fragment context goes
destroy_executor(e) ==
    /\ pc[e] = "executing"
    /\ pc' = [pc EXCEPT ![e] = "gone"]
    /\ LET m2 == [fragment_ctx_ptr EXCEPT ![e] = FALSE] IN
       /\ fragment_ctx_ptr' = m2
       /\ Destroy(fctx, m2, registry)
    /\ UNCHANGED <<request, prepare_status, execute_status, fail_step,
                   query_ctx_ptr, prepared_drivers, submitted_drivers, events,
                   deferred_drivers, query_ctx, registry, now>>

\* ----------------------------------------------------------- specification
Init ==
    /\ pc = [e \in Executors |-> "init"]
    /\ request = [e \in Executors |->
                     [fid |-> 0, options |-> NoOptions, exec |-> NoExecInput,
                      desc |-> "unset", load |-> NoScanRangeMap]]
    /\ prepare_status = [e \in Executors |-> "NONE"]
    /\ execute_status = [e \in Executors |-> "NONE"]
    /\ fail_step = [e \in Executors |-> "none"]
    /\ query_ctx_ptr = [e \in Executors |-> FALSE]
    /\ fragment_ctx_ptr = [e \in Executors |-> FALSE]
    /\ fctx = [e \in Executors |-> NoFragmentContext]
    /\ released = [e \in Executors |-> 0]
    /\ prepared_drivers = [e \in Executors |-> <<>>]
    /\ submitted_drivers = [e \in Executors |-> <<>>]
    /\ events = [e \in Executors |-> NoEvents]
    /\ deferred_drivers = [e \in Executors |-> <<>>]
    /\ query_ctx = FreshQueryContext
    /\ registry = [f \in FragIds |-> 0]
    /\ num_total_drivers = 0
    /\ now = 0

\* MonotonicNanos() advances
Tick ==
    /\ now < MaxTime
    /\ now' = now + 1
    /\ UNCHANGED <<execVars, fragVars, sharedVars>>

PipelineIds == 1..3

StepWith(e, fs, os, plans, xs, ds, ms) ==
    \/ check_mem_limit(e)
    \/ \E f \in fs : prepare_query_ctx(e, f)
    \/ \E o \in os : prepare_query_ctx_register(e, o)
    \/ prepare_fragment_ctx(e)
    \/ prepare_workgroup(e)
    \/ \E d \in ds : prepare_runtime_state(e, d)
    \/ prepare_global_dict(e)
    \/ \E x \in xs : prepare_exec_plan(e, x)
    \/ \E plan \in plans : prepare_pipeline_driver(e, plan)
    \/ try_acquire(e)
    \/ \E sm \in ms : prepare_stream_load_pipe(e, sm)
    \/ register_ctx(e)
    \/ mark_prepared(e)
    \/ prepare_defer(e)
    \/ execute_prepare_driver(e)
    \/ execute_submit_driver(e)
    \/ execute_defer(e)
    \/ \E p \in PipelineIds : pipeline_finish(e, p)
    \/ fragment_finish(e)
    \/ destroy_executor(e)

\* a fragment whose descriptor table is not cached and that loads one
\* broker range over a channel
Step(e, fs, os, plans, xs) ==
    StepWith(e, fs, os, plans, xs, {"unset"}, {OneChannelLoad})

Adaptive(e) ==
    \/ \E l \in PipelineIds : fire_blocking_event(e, l)
    \/ \E l \in PipelineIds, shrink \in BOOLEAN :
          fire_group_initialize_event(e, l, shrink)

\* Spec: NumExecutors threads prepare and execute fragments of the query
\* concurrently; every fragment is one pipeline of two lanes.
SpecOptions == {NoOptions}
SpecPlans == {OnePipeline(2)}
SpecExecInputs == {SimpleScan, [SimpleScan EXCEPT !.create_tree_ok = FALSE]}

Next ==
    \E e \in Executors :
        Step(e, FragIds, SpecOptions, SpecPlans, SpecExecInputs)

Spec == Init /\ [][Next]_vars

\* SpecPipe: one executor prepares and executes one fragment whose plan has
\* adaptive groups, while the clock runs.
PipeOptions == RequestOptions({2, 5, 400})
PipePlans == {OnePipeline(2), LeaderAndFollower(2, 1), LeaderAndFollower(2, 2),
              DeferredGroup, TwoGroups}

NextPipe ==
    \/ Step(1, {1}, PipeOptions, PipePlans, SpecExecInputs)
    \/ Adaptive(1)
    \/ Tick

SpecPipe == Init /\ [][NextPipe]_vars


\* SpecLifetime: executors 1 and 2 prepare and execute two different
\* fragments of the query, with the default timeouts or with a query timeout
\* of two seconds, while the clock runs.
LifetimeOptions == {NoOptions,
                    [qt_set |-> TRUE, qt |-> 2, dt_set |-> FALSE, dt |-> 0]}

NextLifetime ==
    \/ Step(1, {1}, LifetimeOptions, SpecPlans, {SimpleScan})
    \/ Step(2, {2}, LifetimeOptions, SpecPlans, {SimpleScan})
    \/ Tick

SpecLifetime == Init /\ [][NextLifetime]_vars

\* SpecScan: one executor prepares and executes one fragment; the request
\* varies the query cache, the scan nodes and their scan ranges, the limits
\* and the scan-rows ceiling of the resource group.
ScanPlans == {OnePipeline(2), TwoScans, ExchangePipeline}
ScanOptions == {NoOptions}

NextScan ==
    \/ Step(1, {1}, ScanOptions, ScanPlans, CacheInputs \cup LimitInputs)
    \/ Adaptive(1)

SpecScan == Init /\ [][NextScan]_vars

\* SpecAdaptive: one executor prepares and executes a fragment with deferred
\* groups. The RPC thread runs prepare and execute to their end, the driver
\* executor runs every submitted driver and processes every event whose
\* dependencies have finished: both are weakly fair.
AdaptivePlans ==
    {LeaderAndFollower(1, 1), LeaderAndFollower(2, 2), DeferredGroup, TwoGroups,
     IndependentGroup}

StepAdaptive == Step(1, {1}, {NoOptions}, AdaptivePlans, {SimpleScan})

NextAdaptive ==
    \/ StepAdaptive
    \/ Adaptive(1)

SpecAdaptive ==
    Init /\ [][NextAdaptive]_vars
         /\ WF_vars(StepAdaptive) /\ WF_vars(Adaptive(1))

\* SpecDesc: two fragments of one query are prepared and executed
\* concurrently; fragment 1 carries the full descriptor table, fragment 2
\* expects the table cached in the query context.
DescPlans == {OnePipeline(1)}

NextDesc ==
    \/ StepWith(1, {1}, {NoOptions}, DescPlans, {SimpleScan}, {"full"},
                {NoScanRangeMap})
    \/ StepWith(2, {2}, {NoOptions}, DescPlans, {SimpleScan}, {"cached"},
                {NoScanRangeMap})

SpecDesc == Init /\ [][NextDesc]_vars

\* SpecLoad: one executor prepares and executes one fragment; the request
\* varies the per-lane scan-range map the stream-load pipe is prepared from.
NotBroker == LoadRange(9, FALSE, FALSE)
NoChannel == LoadRange(8, TRUE, FALSE)

LoadMaps ==
    {NoScanRangeMap,
     <<(<<>>)>>,
     <<(<<(<<>>)>>)>>,
     <<(<<(<<NotBroker>>)>>)>>,
     <<(<<(<<NoChannel>>)>>)>>,
     OneChannelLoad,
     <<(<<(<<LoadRange(1, TRUE, TRUE), LoadRange(2, TRUE, TRUE)>>),
          (<<LoadRange(3, TRUE, TRUE)>>)>>)>>,
     <<(<<(<<LoadRange(1, TRUE, TRUE)>>)>>),
       (<<(<<LoadRange(2, TRUE, TRUE)>>)>>)>>,
     <<(<<(<<LoadRange(1, TRUE, TRUE)>>), (<<LoadRange(2, TRUE, TRUE)>>)>>),
       (<<(<<LoadRange(3, TRUE, TRUE), LoadRange(4, TRUE, TRUE)>>)>>)>>}

NextLoad ==
    StepWith(1, {1}, {NoOptions}, {OnePipeline(1)}, {SimpleScan}, {"unset"},
             LoadMaps)

SpecLoad == Init /\ [][NextLoad]_vars

\* ================================================================== claims
\* the steps of prepare() between the duplicate check and the registration
AfterDuplicateCheck ==
    {"get_or_register", "prepare_fragment_ctx", "prepare_workgroup",
     "prepare_runtime_state", "prepare_global_dict", "prepare_exec_plan",
     "prepare_pipeline_driver", "try_acquire", "prepare_stream_load_pipe",
     "register_ctx"}

\* the steps that fail after the driver token was acquired
AfterTokenAcquired ==
    {"prepare_stream_load_pipe", "register_ctx", "driver_prepare"}

\* executor e takes this step
Moves(e) == pc'[e] # pc[e]

\* C1: a prepare whose duplicate check finds a fragment context of its
\* identity registered returns DuplicateInvocation, and no step of a prepare
\* that returns DuplicateInvocation (the check, the deferred cleanup)
\* changes the query context (expire seconds, deadlines, live-fragment
\* count), the registry, the fragment contexts or the driver limiter.
C1_DuplicateRejected ==
    [][\A e \in Executors :
          /\ (Moves(e) /\ pc[e] = "prepare_query_ctx" /\ query_ctx.exists
                       /\ registry[request'[e].fid] # 0)
                => prepare_status'[e] = "DuplicateInvocation"
          /\ (Moves(e) /\ prepare_status'[e] = "DuplicateInvocation")
                => /\ UNCHANGED <<query_ctx, registry, num_total_drivers,
                                  fctx, released>>
                   /\ ~query_ctx_ptr'[e] /\ ~fragment_ctx_ptr'[e]]_vars

\* a rejected duplicate has returned while the first fragment is registered
C1_Witness ==
    \E e \in Executors :
        /\ pc[e] = "done"
        /\ prepare_status[e] = "DuplicateInvocation"
        /\ registry[request[e].fid] \notin {0, e}
        /\ query_ctx.num_fragments = 1
        /\ fctx[registry[request[e].fid]].token > 0

\* C2: of two executors preparing the same (query_id, fragment_instance_id)
\* at most one is past the duplicate check and building a fragment context.
C2_AtMostOnePassesDuplicateCheck ==
    \A e1, e2 \in Executors :
        (e1 # e2 /\ request[e1].fid = request[e2].fid)
            => ~(/\ pc[e1] \in AfterDuplicateCheck /\ fctx[e1].alive
                 /\ pc[e2] \in AfterDuplicateCheck /\ fctx[e2].alive)

\* C3 as claimed: in every state the drivers instantiated for a fragment are
\* within the token the fragment holds.
C3_DriversWithinToken ==
    \A e \in Executors : SumSeq(fctx[e].drivers) <= fctx[e].token

\* C3 as amended: from the grant of the token until the fragment context is
\* destroyed the instantiated drivers are within the token; without a token
\* only drivers of initially-active pipelines exist.
C3_DriversWithinHeldToken ==
    \A e \in Executors :
        /\ fctx[e].token > 0 => SumSeq(fctx[e].drivers) <= fctx[e].token
        /\ fctx[e].token = 0 =>
              \A p \in DOMAIN fctx[e].drivers :
                  fctx[e].drivers[p] > 0 => fctx[e].plan.active[p]

\* deferred pipelines were instantiated and the drivers fill the token
C3_Witness ==
    \E e \in Executors :
        /\ fctx[e].token > 0
        /\ events[e].group_fired # {}
        /\ SumSeq(fctx[e].drivers) = fctx[e].token

\* C4: when the limiter refuses the token, prepare returns ResourceExhausted,
\* the fragment context is released and, as prepare returns, the fragment
\* instance id is absent from the registry.
C4_TokenRefusedLeavesIdAbsent ==
    [][\A e \in Executors :
          (Moves(e) /\ pc'[e] = "done" /\ fail_step[e] = "try_acquire")
             => /\ prepare_status[e] = "ResourceExhausted"
                /\ ~fctx'[e].alive
                /\ registry'[request[e].fid] = 0]_vars

\* C5: the limiter counts exactly the tokens held by living fragment
\* contexts; a token is released at most once and only by the destruction
\* of its context; after a prepare or execute that failed with the token
\* acquired the token has been released once and is no longer counted, and
\* after one that failed earlier nothing was released.
C5_TokenReleasedOnce ==
    /\ num_total_drivers = SumSeq([e \in Executors |-> fctx[e].token])
    /\ \A e \in Executors :
          /\ released[e] <= 1
          /\ released[e] = 1 => ~fctx[e].alive
          /\ fctx[e].token > 0 => fctx[e].alive /\ released[e] = 0
          /\ (pc[e] = "gone" /\ ~fctx[e].alive) => released[e] = 1
          /\ pc[e] = "done" =>
                /\ fctx[e].token = 0 /\ ~fctx[e].alive
                /\ released[e] = IF fail_step[e] \in AfterTokenAcquired
                                 THEN 1 ELSE 0

\* an execute failed after the token was granted; the token is back
C5_Witness ==
    \E e \in Executors :
        /\ pc[e] = "done" /\ fail_step[e] = "driver_prepare"
        /\ released[e] = 1
        /\ num_total_drivers = 0

\* C6: after a failing prepare or execute no fragment context built by that
\* executor is registered; a failing prepare never had one registered.
C6_NothingRegisteredAfterFailure ==
    \A e \in Executors :
        pc[e] \in {"prepare_defer", "done"} => RegisteredBy(e) = {}

\* an execute failed and the entry its prepare inserted is gone
C6_Witness ==
    \E e \in Executors :
        /\ pc[e] = "done" /\ execute_status[e] = "InternalError"
        /\ prepare_status[e] = "OK"
        /\ registry[request[e].fid] = 0


\* the drivers of the pipelines of the plan whose source is initially active
InitiallyActiveDrivers(plan) ==
    UNION {Range(DriversOf(p, plan.dop[p])) :
              p \in {q \in Pipelines(plan) : plan.active[q]}}

\* the pipelines of the plan whose source is not initially active
DeferredPipelines(plan) == {p \in Pipelines(plan) : ~plan.active[p]}

\* C7: right after _prepare_pipeline_driver every initially-active pipeline
\* has its dop drivers and every other pipeline has none; a pipeline that is
\* not initially active has drivers only once the group-initialize event of
\* its leader has fired, and has them from then on while the fragment lives.
C7_DeferredInstantiation ==
    \A e \in Executors :
        /\ pc[e] \in {"try_acquire", "prepare_stream_load_pipe", "register_ctx"}
              => \A p \in Pipelines(fctx[e].plan) :
                    fctx[e].drivers[p] =
                        IF fctx[e].plan.active[p] THEN fctx[e].plan.dop[p] ELSE 0
        /\ fctx[e].alive =>
              \A p \in DeferredPipelines(fctx[e].plan) :
                  fctx[e].drivers[p] > 0
                      <=> fctx[e].plan.leader[p] \in events[e].group_fired

\* a deferred pipeline got its drivers from the event of its leader
C7_Witness ==
    \E e \in Executors : \E p \in DeferredPipelines(fctx[e].plan) :
        /\ fctx[e].drivers[p] > 0
        /\ fctx[e].plan.leader[p] \in events[e].group_fired

\* C8: a group-initialize event has fired only if the leader's adaptive
\* blocking event (when it has one) and the pipeline event of every pipeline
\* of its group_dependent_pipelines have fired; a driver of a pipeline that
\* is not initially active has been submitted only if the event of its
\* leader has fired.
C8_GroupEventAfterDependencies ==
    \A e \in Executors :
        /\ \A l \in events[e].group_fired :
              /\ fctx[e].plan.blocking[l] => l \in events[e].blocking_fired
              /\ fctx[e].plan.deps[l] \subseteq events[e].pipeline_fired
        /\ \A d \in SubmittedDrivers(e) :
              ~fctx[e].plan.active[d[1]]
                  => fctx[e].plan.leader[d[1]] \in events[e].group_fired

\* the event of a leader with a blocking event and a dependency has fired
\* and its pipelines run
C8_Witness ==
    \E e \in Executors : \E l \in events[e].group_fired :
        /\ fctx[e].plan.blocking[l]
        /\ fctx[e].plan.deps[l] # {}
        /\ \E d \in Range(deferred_drivers[e]) : fctx[e].plan.leader[d[1]] = l

\* C9: a driver has been submitted by execute only if every driver of every
\* initially-active pipeline was prepared successfully before; when a
\* driver's prepare fails, execute returns the error, has submitted nothing,
\* and after its cleanup the fragment is unregistered, destroyed and its
\* token released, whatever had been prepared.
C9_PrepareAllBeforeSubmit ==
    \A e \in Executors :
        /\ submitted_drivers[e] # <<>> =>
              /\ \A i \in DOMAIN prepared_drivers[e] : prepared_drivers[e][i].ok
              /\ {x.driver : x \in Range(prepared_drivers[e])}
                    = InitiallyActiveDrivers(fctx[e].plan)
        /\ fail_step[e] = "driver_prepare" =>
              /\ execute_status[e] = "InternalError"
              /\ submitted_drivers[e] = <<>> /\ deferred_drivers[e] = <<>>
              /\ pc[e] = "done" =>
                    /\ RegisteredBy(e) = {} /\ ~fctx[e].alive
                    /\ fctx[e].token = 0 /\ released[e] = 1

\* the second driver failed to prepare after the first had prepared
C9_Witness ==
    \E e \in Executors :
        /\ pc[e] = "done" /\ fail_step[e] = "driver_prepare"
        /\ Len(prepared_drivers[e]) >= 2
        /\ prepared_drivers[e][1].ok
        /\ DeferredPipelines(fctx[e].plan) # {}

\* C10: execute prepares and submits only drivers of initially-active
\* pipelines; when it returns OK it has submitted exactly the drivers of the
\* initially-active pipelines, each once.
C10_OnlyActiveDriversSubmitted ==
    \A e \in Executors :
        /\ {x.driver : x \in Range(prepared_drivers[e])}
              \subseteq InitiallyActiveDrivers(fctx[e].plan)
        /\ Range(submitted_drivers[e]) \subseteq InitiallyActiveDrivers(fctx[e].plan)
        /\ Cardinality(Range(submitted_drivers[e])) = Len(submitted_drivers[e])
        /\ execute_status[e] = "OK" =>
              Range(submitted_drivers[e]) = InitiallyActiveDrivers(fctx[e].plan)

\* execute returned OK for a plan with deferred pipelines, whose drivers
\* the group-initialize event submitted later
C10_Witness ==
    \E e \in Executors :
        /\ execute_status[e] = "OK"
        /\ deferred_drivers[e] # <<>>
        /\ Range(submitted_drivers[e]) = InitiallyActiveDrivers(fctx[e].plan)
        /\ Range(submitted_drivers[e]) \cap Range(deferred_drivers[e]) = {}

\* ------------------------------------------------------ _prepare_exec_plan
\* _prepare_exec_plan of e has returned OK
ExecPlanOK(e) ==
    \/ pc[e] \in {"prepare_pipeline_driver", "try_acquire",
                  "prepare_stream_load_pipe", "register_ctx", "mark_prepared",
                  "prepared", "execute_submit", "execute_defer", "executing",
                  "gone"}
    \/ /\ pc[e] \in {"prepare_defer", "done"}
       /\ fail_step[e] \in {"prepare_pipeline_driver", "try_acquire",
                            "prepare_stream_load_pipe", "register_ctx",
                            "driver_prepare"}

\* C11: when query cache is enabled for the fragment at the end of
\* _prepare_exec_plan, shared scan is off for every scan node of the
\* fragment, whatever shared scan the request asked for, whatever is_shared
\* the factories report and however many scan nodes there are; the loop has
\* decided shared scan for every scan node.
C11_CacheForcesSharedScanOff ==
    \A e \in Executors :
        ExecPlanOK(e) =>
            /\ Len(fctx[e].shared_scan) = Len(request[e].exec.scan_nodes)
            /\ fctx[e].enable_cache =>
                  \A i \in DOMAIN fctx[e].shared_scan : ~fctx[e].shared_scan[i]

\* caching stayed on for two scan nodes with shared factories although the
\* request asked for shared scan
C11_Witness ==
    \E e \in Executors :
        /\ ExecPlanOK(e)
        /\ fctx[e].enable_cache
        /\ request[e].exec.enable_shared_scan
        /\ Len(request[e].exec.scan_nodes) = 2
        /\ \A i \in 1..2 : request[e].exec.scan_nodes[i].is_shared
        /\ fctx[e].shared_scan = <<FALSE, FALSE>>

\* C12: when _prepare_exec_plan returns OK, caching is off for the fragment
\* if any scan node, first or last, has an empty per-driver-sequence map of
\* scan ranges, if spill is enabled, or if the request has no cache_param.
C12_EmptyLaneMapDisablesCache ==
    \A e \in Executors :
        ExecPlanOK(e) =>
            LET x == request[e].exec IN
            /\ (\E i \in DOMAIN x.scan_nodes :
                    x.scan_nodes[i].per_driver_seq = <<>>)
                  => ~fctx[e].enable_cache
            /\ x.enable_spill => ~fctx[e].enable_cache
            /\ ~x.cache_param => ~fctx[e].enable_cache

\* caching was requested without spill and the last of two scan nodes has
\* an empty map: caching is off
C12_Witness ==
    \E e \in Executors :
        LET x == request[e].exec IN
        /\ ExecPlanOK(e)
        /\ x.cache_param /\ ~x.enable_spill
        /\ Len(x.scan_nodes) = 2
        /\ x.scan_nodes[1].per_driver_seq # <<>>
        /\ x.scan_nodes[2].per_driver_seq = <<>>
        /\ ~fctx[e].enable_cache

\* caching is on when the loop computes the keys of scan node i
CacheOnAt(x, i) ==
    /\ x.cache_param /\ ~x.enable_spill
    /\ \A j \in 1..i : x.scan_nodes[j].per_driver_seq # <<>>

\* the scan ranges that get a key: internal scan ranges, of a partition
\* with a registered region, of a cache-eligible scan node read while
\* caching is on
KeyedRanges(x) ==
    UNION {{r \in Range(Flatten(x.scan_nodes[i].per_driver_seq)) :
               r.internal /\ r.partition_id \in DOMAIN x.region_map} :
           i \in {j \in DOMAIN x.scan_nodes :
                     /\ CacheOnAt(x, j)
                     /\ x.scan_nodes[j].id \in x.cached_plan_node_ids}}

\* the eight bytes of a small id on a little-endian machine
SmallIdBytes(id) == <<id, 0, 0, 0, 0, 0, 0, 0>>

\* C13: when _prepare_exec_plan returns OK, every internal scan range, on
\* any lane, of a cache-eligible scan node read with caching on, whose
\* partition has a registered region, has given its tablet the prefix
\* bytes(partition_id) ++ region ++ bytes(tablet_id), of length
\* sizeof(partition_id) + len(region) + sizeof(tablet_id); no other tablet
\* has a prefix: not those whose partition has no region, not those of
\* scan nodes outside the cache-eligible set.
C13_CacheKeyPrefixes ==
    \A e \in Executors :
        ExecPlanOK(e) =>
            LET x == request[e].exec
                prefixes == fctx[e].cache_key_prefixes
            IN /\ \A r \in KeyedRanges(x) :
                     /\ prefixes[r.tablet_id] =
                            SmallIdBytes(r.partition_id)
                                \o x.region_map[r.partition_id]
                                \o SmallIdBytes(r.tablet_id)
                     /\ Len(prefixes[r.tablet_id]) =
                            8 + Len(x.region_map[r.partition_id]) + 8
               /\ \A t \in Tablets :
                     prefixes[t] # <<>> =>
                         \E r \in KeyedRanges(x) : r.tablet_id = t

\* caching is on, scan node 1 is eligible and scan node 2 is not, partition
\* 2 has no region: tablets 1 and 2 have a prefix of 18 bytes, tablets 3
\* and 4 have none
C13_Witness ==
    \E e \in Executors :
        LET x == request[e].exec IN
        /\ ExecPlanOK(e)
        /\ fctx[e].enable_cache
        /\ Len(x.scan_nodes) = 2
        /\ x.cached_plan_node_ids = {1}
        /\ DOMAIN x.region_map = {1}
        /\ Len(fctx[e].cache_key_prefixes[1]) = 18
        /\ Len(fctx[e].cache_key_prefixes[2]) = 18
        /\ fctx[e].cache_key_prefixes[3] = <<>>
        /\ fctx[e].cache_key_prefixes[4] = <<>>

\* the smallest q with q * b >= a
CeilDiv(a, b) == CHOOSE q \in 0..a : q * b >= a /\ (q - 1) * b < a

\* the scan nodes before the first one without a positive limit
LimitedPrefix(x) ==
    {i \in DOMAIN x.scan_nodes : \A j \in 1..i : x.scan_nodes[j].limit > 0}

\* C14: when _prepare_exec_plan returns OK, every scan node with a positive
\* limit that the loop has counted contributes
\* ceil(limit / c) * c * d * io_parallelism to the physical scan limit and
\* its limit to the logical one; when every scan node has a positive limit
\* the two limits are the sums over all scan nodes; when some scan node has
\* none, the logical limit is -1 and a positive ceiling of the resource
\* group becomes the scan limit as it is.
C14_ScanLimitTerms ==
    \A e \in Executors :
        ExecPlanOK(e) =>
            LET x == request[e].exec
                n == Len(x.scan_nodes)
                counted == LimitedPrefix(x)
                term(i) == CeilDiv(x.scan_nodes[i].limit, x.chunk_size)
                              * x.chunk_size * x.dop * x.scan_nodes[i].io_tasks
            IN /\ fctx[e].scan_limits.physical =
                     SumSeq([i \in 1..n |-> IF i \in counted THEN term(i) ELSE 0])
               /\ counted = 1..n =>
                     fctx[e].scan_limits.logical =
                         SumSeq([i \in 1..n |-> x.scan_nodes[i].limit])
               /\ counted # 1..n =>
                     /\ fctx[e].scan_limits.logical = -1
                     /\ (pc[e] = "prepare_pipeline_driver"
                            /\ x.big_query_scan_rows_limit > 0)
                           => query_ctx.scan_limit = x.big_query_scan_rows_limit

\* limits 3 and 5 with chunks of 4 rows on 2 lanes, 2 and 1 io tasks:
\* 4 * 2 * 2 + 8 * 2 * 1 rows
C14_Witness ==
    \E e \in Executors :
        LET x == request[e].exec IN
        /\ ExecPlanOK(e)
        /\ Len(x.scan_nodes) = 2
        /\ x.scan_nodes[1].limit = 3 /\ x.scan_nodes[1].io_tasks = 2
        /\ x.scan_nodes[2].limit = 5 /\ x.scan_nodes[2].io_tasks = 1
        /\ fctx[e].scan_limits = [logical |-> 8, physical |-> 32]

\* C15: a _prepare_exec_plan that returns OK under a resource group with a
\* positive big-query scan-rows ceiling G sets the scan limit of the query
\* to max(G, physical_scan_limit) when 0 <= logical_scan_limit <= G and to
\* G otherwise, never below G; without a positive ceiling, and when it
\* fails, it leaves the scan limit as it was.
C15_ScanLimitCeiling ==
    [][\A e \in Executors :
          (Moves(e) /\ pc[e] = "prepare_exec_plan") =>
              LET x == request'[e].exec
                  G == x.big_query_scan_rows_limit
                  logical == fctx'[e].scan_limits.logical
                  physical == fctx'[e].scan_limits.physical
              IN IF pc'[e] = "prepare_pipeline_driver" /\ G > 0
                 THEN /\ query_ctx'.scan_limit >= G
                      /\ query_ctx'.scan_limit =
                            IF 0 <= logical /\ logical <= G
                            THEN (IF physical > G THEN physical ELSE G)
                            ELSE G
                 ELSE query_ctx'.scan_limit = query_ctx.scan_limit]_vars

\* the logical limit 8 is above the ceiling 6: the scan limit is 6 although
\* the physical estimate is larger
C15_Witness ==
    \E e \in Executors :
        LET x == request[e].exec IN
        /\ pc[e] = "prepare_pipeline_driver"
        /\ x.big_query_scan_rows_limit = 6
        /\ fctx[e].scan_limits.logical = 8
        /\ fctx[e].scan_limits.physical > 6
        /\ query_ctx.scan_limit = 6

\* --------------------------------------------------------------- lifetimes
\* the smallest of the timeouts that are set, at least 1; the default when
\* none is set
ExpectedDeliveryExpire(o) ==
    LET timeouts == (IF o.dt_set THEN {o.dt} ELSE {})
                        \cup (IF o.qt_set THEN {o.qt} ELSE {})
        least == CHOOSE v \in timeouts : \A w \in timeouts : v <= w
    IN IF timeouts = {} THEN DEFAULT_EXPIRE_SECONDS
       ELSE IF least < 1 THEN 1 ELSE least

ExpectedQueryExpire(o) ==
    IF ~o.qt_set THEN DEFAULT_EXPIRE_SECONDS
    ELSE IF o.qt < 1 THEN 1 ELSE o.qt

\* C16: for every combination of set and unset query_timeout and
\* query_delivery_timeout, _prepare_query_ctx gives the query context
\* delivery-expire-seconds max(1, min(the timeouts that are set)) and
\* query-expire-seconds max(1, query_timeout), the default
\* DEFAULT_EXPIRE_SECONDS where no timeout is set; both are at least 1.
C16_ExpireSeconds ==
    [][\A e \in Executors :
          (Moves(e) /\ pc[e] = "get_or_register") =>
              LET o == request'[e].options IN
              /\ query_ctx'.delivery_expire_seconds = ExpectedDeliveryExpire(o)
              /\ query_ctx'.query_expire_seconds = ExpectedQueryExpire(o)
              /\ query_ctx'.delivery_expire_seconds >= 1
              /\ query_ctx'.query_expire_seconds >= 1
              /\ (o.qt_set /\ o.qt = 5 /\ ~o.dt_set) =>
                    /\ query_ctx'.delivery_expire_seconds = 5
                    /\ query_ctx'.query_expire_seconds = 5]_vars

\* query_delivery_timeout 2 with query_timeout 5: delivery expires after 2
\* seconds, the query after 5
C16_Witness ==
    \E e \in Executors :
        /\ query_ctx_ptr[e] /\ query_ctx.exists
        /\ request[e].options =
              [qt_set |-> TRUE, qt |-> 5, dt_set |-> TRUE, dt |-> 2]
        /\ query_ctx.delivery_expire_seconds = 2
        /\ query_ctx.query_expire_seconds = 5

PrepareOrder ==
    <<"init", "prepare_query_ctx", "get_or_register", "prepare_fragment_ctx",
      "prepare_workgroup", "prepare_runtime_state", "prepare_global_dict",
      "prepare_exec_plan", "prepare_pipeline_driver", "try_acquire",
      "prepare_stream_load_pipe", "register_ctx", "mark_prepared", "prepared">>

\* the name under which the failure of a position is recorded
StepName(position) ==
    IF position = "init" THEN "check_mem_limit" ELSE position

\* C18: prepare runs memory pre-check, query context, fragment context,
\* workgroup, runtime state, global dict, exec plan, pipeline drivers (with
\* the driver token), stream-load pipe, registration, mark_prepared in this
\* order: every step either goes on to the next one with no status set, or
\* records its error and goes to the cleanup, after which nothing of prepare
\* runs and the status stays the error of that step; a fragment is
\* registered only by the registration step and the query is marked
\* prepared only by mark_prepared, both with no error recorded before.
C18_FirstErrorShortCircuits ==
    [][\A e \in Executors :
          /\ \A k \in 1..(Len(PrepareOrder) - 1) :
                (Moves(e) /\ pc[e] = PrepareOrder[k]) =>
                    \/ /\ pc'[e] = PrepareOrder[k + 1]
                       /\ fail_step'[e] = "none"
                       /\ prepare_status'[e] =
                             IF pc[e] = "mark_prepared" THEN "OK" ELSE "NONE"
                    \/ /\ pc[e] \notin {"get_or_register", "mark_prepared"}
                       /\ pc'[e] = "prepare_defer"
                       /\ fail_step'[e] = StepName(pc[e])
                       /\ prepare_status'[e] \notin {"NONE", "OK"}
          /\ (Moves(e) /\ pc[e] = "prepare_defer") =>
                /\ pc'[e] = "done"
                /\ prepare_status'[e] = prepare_status[e]
                /\ fail_step'[e] = fail_step[e]
          /\ (\E f \in FragIds : registry[f] # e /\ registry'[f] = e) =>
                /\ pc[e] = "register_ctx"
                /\ prepare_status[e] = "NONE" /\ fail_step[e] = "none"
          /\ (Moves(e) /\ query_ctx'.prepared /\ ~query_ctx.prepared) =>
                /\ pc[e] = "mark_prepared"
                /\ prepare_status[e] = "NONE" /\ fail_step[e] = "none"
                /\ RegisteredBy(e) # {}]_vars

\* the global dict failed: prepare returned its error, no pipeline was
\* built, no token asked for, nothing registered
C18_Witness ==
    \E e \in Executors :
        /\ pc[e] = "done"
        /\ fail_step[e] = "prepare_global_dict"
        /\ prepare_status[e] = "InternalError"
        /\ fctx[e].pass_through = FALSE /\ fctx[e].plan = NoPlan
        /\ fctx[e].morsel_queue_factories = {}
        /\ released[e] = 0
        /\ RegisteredBy(e) = {}
        /\ ~query_ctx.prepared

\* ---------------------------------------------------------- morsel queues
\* C19: a pipeline whose source takes morsels has drivers, instantiated by
\* _prepare_pipeline_driver or by a group-initialize event, only when the
\* fragment has a MorselQueueFactory under the plan-node id of the source
\* and that factory is attached to the source; once the pipelines are
\* built, every such pipeline has its factory attached.
C19_MorselQueueFactoryBeforeDrivers ==
    \A e \in Executors :
        \A p \in Pipelines(fctx[e].plan) :
            fctx[e].plan.source[p] # 0 =>
                /\ fctx[e].plan.source[p] \in fctx[e].morsel_queue_factories
                /\ fctx[e].morsel_queue_factory[p] = fctx[e].plan.source[p]

\* the deferred scan pipeline got its drivers from the event of its leader
\* and reads the factory of scan node 2
C19_Witness ==
    \E e \in Executors :
        /\ fctx[e].plan = TwoScans
        /\ 2 \in events[e].group_fired
        /\ fctx[e].drivers[2] > 0
        /\ fctx[e].morsel_queue_factory = <<1, 2>>
        /\ fctx[e].morsel_queue_factories = {1, 2}

\* ------------------------------------------------------------------ groups
\* C20: once _prepare_pipeline_driver has built the pipelines, every
\* pipeline is either initially active, and then in no deferred group and
\* instantiated with its dop when the function asks for the token, or not
\* initially active, and then without drivers at that point and in the
\* group of its leader and in no other; the leaders that have an event are
\* exactly the leaders of pipelines that are not initially active, and the
\* event of a leader covers exactly the pipelines of that leader that are
\* not initially active.
C20_DeferredGroupsPartition ==
    \A e \in Executors :
        fctx[e].plan # NoPlan =>
            LET plan == fctx[e].plan
                groups == events[e].groups
                groups_of(p) == {l \in DOMAIN groups : p \in groups[l].pipelines}
            IN /\ \A p \in Pipelines(plan) :
                     /\ groups_of(p) =
                           IF plan.active[p] THEN {} ELSE {plan.leader[p]}
                     /\ pc[e] = "try_acquire" =>
                           fctx[e].drivers[p] =
                               IF plan.active[p] THEN plan.dop[p] ELSE 0
               /\ DOMAIN groups =
                     {plan.leader[p] : p \in DeferredPipelines(plan)}
               /\ \A l \in DOMAIN groups :
                     groups[l].pipelines =
                         {p \in DeferredPipelines(plan) : plan.leader[p] = l}

\* two deferred pipelines of one leader share one event; the active
\* pipeline, its own leader, has none
C20_Witness ==
    \E e \in Executors :
        /\ pc[e] = "try_acquire"
        /\ fctx[e].plan = DeferredGroup
        /\ DOMAIN events[e].groups = {2}
        /\ events[e].groups[2].pipelines = {2, 3}
        /\ fctx[e].drivers = <<1, 0, 0>>

\* C21: the driver limiter is asked once per prepare: the only step that
\* raises the process-wide driver count or gives a fragment context a token
\* is the try_acquire step of its prepare, taken once, after the pipelines
\* are built, the active drivers instantiated and the group-initialize
\* events wired; it asks for the lanes of all pipelines, deferred ones
\* included, and the later activation of a deferred group changes neither
\* the token nor the limiter and stays within the token.
C21_SingleTokenForAllLanes ==
    [][\A e \in Executors :
        /\ (fctx'[e].token > fctx[e].token)
              => /\ pc[e] = "try_acquire" /\ pc'[e] = "prepare_stream_load_pipe"
                 /\ fctx[e].token = 0
                 /\ fctx[e].plan # NoPlan
                 /\ fctx[e].drivers = instantiate_drivers(fctx[e].plan)
                 /\ events[e].groups =
                        create_adaptive_group_initialize_events(fctx[e].plan)
                 /\ fctx'[e].token = total_dop(fctx[e].plan)
                 /\ num_total_drivers' =
                        num_total_drivers + total_dop(fctx[e].plan)
        /\ (num_total_drivers' > num_total_drivers)
              => \E x \in Executors : fctx'[x].token > fctx[x].token
        /\ (pc'[e] = "try_acquire" /\ Moves(e))
              => pc[e] = "prepare_pipeline_driver"
        /\ (deferred_drivers'[e] # deferred_drivers[e])
              => /\ num_total_drivers' = num_total_drivers
                 /\ fctx'[e].token = fctx[e].token
                 /\ SumSeq(fctx'[e].drivers) <= fctx[e].token]_vars

\* a fragment with a deferred group runs with all its lanes under the one
\* token acquired in prepare
C21_Witness ==
    \E e \in Executors :
        /\ pc[e] = "executing"
        /\ deferred_drivers[e] # <<>>
        /\ fctx[e].token = total_dop(fctx[e].plan)
        /\ SumSeq(fctx[e].drivers) = fctx[e].token
        /\ num_total_drivers = fctx[e].token

\* what the group-initialize event of leader l of executor e was created to
\* wait for has fired
DependenciesFired(e, l) ==
    /\ fctx[e].alive
    /\ l \in DOMAIN events[e].groups
    /\ events[e].groups[l].blocking => l \in events[e].blocking_fired
    /\ events[e].groups[l].pipes \subseteq events[e].pipeline_fired

\* the group of leader l of executor e has been activated
GroupActivated(e, l) ==
    /\ l \in events[e].group_fired
    /\ \A p \in events[e].groups[l].pipelines : fctx[e].drivers[p] > 0

FailedAfterWiring(e) ==
    \/ fail_step[e] \in {"try_acquire", "prepare_stream_load_pipe",
                         "register_ctx", "driver_prepare"}
    \/ \E i \in DOMAIN prepared_drivers[e] : ~prepared_drivers[e][i].ok

\* C23: once prepare or execute has failed after the group-initialize
\* events were wired, no group-initialize event of the fragment has fired or
\* ever fires, no deferred pipeline has or ever gets drivers, and no
\* deferred driver is ever submitted.
C23_FailedFragmentNeverActivated ==
    \A e \in Executors :
        FailedAfterWiring(e)
            => /\ events[e].group_fired = {}
               /\ deferred_drivers[e] = <<>>
               /\ submitted_drivers[e] = <<>>
               /\ \A p \in DeferredPipelines(fctx[e].plan) :
                      fctx[e].drivers[p] = 0

\* the prepare of a driver failed in a fragment that has a deferred group,
\* and the cleanup has run
C23_Witness ==
    \E e \in Executors :
        /\ pc[e] = "done"
        /\ fail_step[e] = "driver_prepare"
        /\ events[e].groups # <<>>
        /\ DeferredPipelines(fctx[e].plan) # {}
        /\ ~fctx[e].alive

\* C24: of two fragments of a live query prepared concurrently, the one
\* that expects the cached descriptor table (executor 2) does not fail with
\* Cancelled while the one that carries the full table (executor 1) has not
\* failed: Cancelled is returned only for a query that has terminated.
C24_CachedTableFoundWhileLive ==
    (prepare_status[2] = "Cancelled" /\ request[2].desc = "cached")
        => prepare_status[1] \notin {"NONE", "OK"}

\* the failures of prepare before get_or_register: the memory pre-check and
\* the duplicate check
BeforeGetOrRegister == {"check_mem_limit", "prepare_query_ctx"}

\* C25: the cleanup of an executor is its last step and runs at most once;
\* it lowers the live-fragment count of the query by exactly one when the
\* failure came after get_or_register and leaves the query context as it
\* is when prepare failed at the memory pre-check or as a duplicate
\* invocation; no other step of the executor lowers the count, so an
\* executor whose prepare and execute succeed never lowers it.
C25_CleanupCountsDownOnce ==
    [][\A e \in Executors :
        Moves(e) =>
            /\ pc[e] # "done"
            /\ (pc'[e] = "done")
                  => /\ pc[e] \in {"prepare_defer", "execute_defer"}
                     /\ fail_step[e] # "none"
                     /\ IF fail_step[e] \in BeforeGetOrRegister
                        THEN query_ctx' = query_ctx
                        ELSE query_ctx'.num_fragments =
                                 query_ctx.num_fragments - 1
            /\ (pc'[e] # "done")
                  => query_ctx'.num_fragments >= query_ctx.num_fragments
            /\ (pc[e] \in {"prepared", "execute_submit", "executing"}
                    /\ pc'[e] # "execute_defer")
                  => /\ pc'[e] \in {"execute_submit", "executing", "gone"}
                     /\ fail_step'[e] = "none"]_vars

\* a cleanup after get_or_register has taken the query's last live fragment
C25_Witness ==
    \E e \in Executors :
        /\ pc[e] = "done"
        /\ fail_step[e] \notin BeforeGetOrRegister \cup {"none"}
        /\ query_ctx_ptr[e]
        /\ query_ctx.num_fragments = 0
        /\ \E x \in Executors : pc[x] = "gone"

\* the positions of an executor after its fragment context was registered
AfterRegistration ==
    {"mark_prepared", "prepared", "execute_submit", "execute_defer",
     "executing", "gone"}

\* C26: a fragment context that is in the registry is alive, has its
\* runtime state, its pipelines built and the drivers of its active
\* pipelines, and holds a driver token for all its lanes; its executor is
\* past the registration. mark_prepared is reached only by an executor
\* whose fragment context is registered.
C26_RegisteredIsPrepared ==
    /\ \A f \in FragIds :
          registry[f] # 0
            => LET e == registry[f] IN
               /\ request[e].fid = f
               /\ pc[e] \in AfterRegistration
               /\ prepare_status[e] \in {"NONE", "OK"}
               /\ fctx[e].alive
               /\ fctx[e].pass_through_prepares = 1
               /\ fctx[e].plan # NoPlan
               /\ \A p \in Pipelines(fctx[e].plan) :
                      fctx[e].plan.active[p]
                          => fctx[e].drivers[p] = fctx[e].plan.dop[p]
               /\ fctx[e].token > 0
               /\ fctx[e].token = total_dop(fctx[e].plan)
    /\ \A e \in Executors :
          pc[e] = "mark_prepared" => registry[request[e].fid] = e

\* a fragment context is registered and mark_prepared is about to be called
C26_Witness ==
    \E e \in Executors :
        /\ pc[e] = "mark_prepared"
        /\ registry[request[e].fid] = e
        /\ fctx[e].token = total_dop(fctx[e].plan)
        /\ ~query_ctx.prepared

\* the request x of two scan nodes with its scan nodes processed in the
\* other order
OtherOrder(x) == [x EXCEPT !.scan_nodes = <<@[2], @[1]>>]

\* C27: the shared-scan flag of every scan node and the final cache flag of
\* the fragment are those the loop would have computed had it processed the
\* two scan nodes of the request in the other order.
C27_SharedScanOrderIndependent ==
    \A e \in Executors :
        (ExecPlanOK(e) /\ Len(request[e].exec.scan_nodes) = 2)
            => LET y == OtherOrder(request[e].exec)
                   other == set_scan_ranges(y, exec_plan_begin(y), 1)
               IN /\ other.status = "OK"
                  /\ fctx[e].enable_cache = other.enable_cache
                  /\ fctx[e].shared_scan[1] = other.shared_scan[2]
                  /\ fctx[e].shared_scan[2] = other.shared_scan[1]

\* C28: the cleanup of a failed prepare destroys the pass-through chunk
\* buffer of a fragment context at most once, and only of a fragment context
\* whose pass-through chunk buffer was prepared before.
C28_DestroyOnlyPrepared ==
    \A e \in Executors :
        /\ fctx[e].pass_through_destroys <= 1
        /\ fctx[e].pass_through_destroys <= fctx[e].pass_through_prepares

\* one context per scan range of every lane of every scan node of the map
AllContexts(scan_range_map) ==
    LET ranges == Flatten(Flatten(scan_range_map)) IN
    [i \in 1..Len(ranges) |-> ranges[i].id]

\* C29: once _prepare_stream_load_pipe has returned OK, the fragment
\* context holds one stream-load context per scan range of every lane of
\* every scan node of the map, in the order of the map, when the first
\* range of the map is a broker range with a channel id, and none when it
\* is not or the map is empty.
C29_ContextsForEveryScanNode ==
    \A e \in Executors :
        (pc[e] \in AfterRegistration \cup {"register_ctx"})
            => fctx[e].stream_load_contexts =
                   IF is_channel_stream_load(request[e].load)
                   THEN AllContexts(request[e].load)
                   ELSE <<>>
====
